---- MODULE Spec2Model ----
(***************************************************************************)
(* A model of the planning core of sm0l_tools_mcp: the phase planner, the  *)
(* step ranker and the recipe candidate builder (toolchains.py), the       *)
(* dependency extras resolver (install_hints.py) and the script locator    *)
(* (mcp_server.py).  Every operation is a pure function of its arguments   *)
(* (apart from the in-place sorts of pick_best), so each has its own       *)
(* specification: Init draws the arguments from bounded sets and the       *)
(* actions run the code on them.                                           *)
(***************************************************************************)
EXTENDS Integers, Sequences, FiniteSets, TLC

VARIABLES
  pc,                 \* position of the operation under check
  wants, phases,      \* phases_for_goal: the flag dict and the phase list
  extras_map, pkgs, remaining, chosen, suggested_extras,
                      \* choose_extras_for_packages: arguments, loop locals, result
  tool_name, missing_module, deps_pypi, hints,
                      \* install_hints_for_tool: arguments and the payload
  stderr, missing,    \* missing_module_from_stderr: the text and the result
  steps, preferred_domains, required_tags, picked,
                      \* pick_best: the caller's list, the arguments, the result
  tools_dir, source_path, resolved,
                      \* _resolve_script_path: the tree, the declared path, the outcome
  all_steps, goal, max_candidates, per_phase_options, phase_i, candidates, out
                      \* build_recipe_candidates: arguments, locals (phase_i is
                      \* the number of option lists already combined), result

plannerVars == <<wants, phases>>
extrasVars == <<extras_map, pkgs, remaining, chosen, suggested_extras>>
hintsVars == <<tool_name, missing_module, deps_pypi, hints>>
stderrVars == <<stderr, missing>>
rankerVars == <<steps, preferred_domains, required_tags, picked>>
locatorVars == <<tools_dir, source_path, resolved>>
builderVars == <<all_steps, goal, max_candidates, per_phase_options, phase_i,
                 candidates, out>>
vars == <<pc, plannerVars, extrasVars, hintsVars, stderrVars, rankerVars,
          locatorVars, builderVars>>

\* Python's None
None == "<None>"

\* ---------------------------------------------------------------- helpers

Range(s) == {s[i] : i \in 1..Len(s)}

Min(a, b) == IF a < b THEN a ELSE b

\* Lexicographic < on two integer tuples of the same length (Python's tuple order).
TupleLess(k1, k2) ==
  \E i \in 1..Len(k1) :
    /\ k1[i] < k2[i]
    /\ \A j \in 1..(i - 1) : k1[j] = k2[j]

\* list.sort(key=...) / sorted(...): the stable sort of s by the integer-tuple
\* keys key[i] of its elements: the element at i goes after every element with
\* a smaller key and after the earlier elements with an equal key.
StableSort(s, key) ==
  LET n == Len(s)
      before(i) == Cardinality({j \in 1..n :
                      \/ TupleLess(key[j], key[i])
                      \/ (key[j] = key[i] /\ j < i)})
  IN  [p \in 1..n |-> s[CHOOSE i \in 1..n : before(i) = p - 1]]

\* ---------------------------------------------------------- phase planner

Flags == {"web", "browser", "pdf", "office", "nlp", "embeddings", "ml",
          "viz", "system", "schedule", "misc"}

PhaseOrder == <<"ingest_web", "ingest_docs", "observe", "transform",
                "analyze", "visualize", "report">>

\* toolchains.py phases_for_goal: the list after the rules have run top-down.
phases_for_goal_drop_report(w) ==
     (IF w["web"] \/ w["browser"] THEN <<"ingest_web">> ELSE <<>>)
  \o (IF w["pdf"] \/ w["office"] THEN <<"ingest_docs">> ELSE <<>>)
  \o (IF w["system"] THEN <<"observe">> ELSE <<>>)
  \o <<"transform">>
  \o (IF w["nlp"] \/ w["embeddings"] \/ w["ml"] THEN <<"analyze">> ELSE <<>>)
  \o (IF w["viz"] THEN <<"visualize", "report">> ELSE <<>>)

phases_for_goal(w) ==
     (IF w["web"] \/ w["browser"] THEN <<"ingest_web">> ELSE <<>>)
  \o (IF w["pdf"] \/ w["office"] THEN <<"ingest_docs">> ELSE <<>>)
  \o (IF w["system"] THEN <<"observe">> ELSE <<>>)
  \o <<"transform">>
  \o (IF w["nlp"] \/ w["embeddings"] \/ w["ml"] THEN <<"analyze">> ELSE <<>>)
  \o (IF w["viz"] THEN <<"visualize">> ELSE <<>>)
  \o <<"report">>

\* ------------------------------------------------- dependency extras resolver

\* Python truthiness of an Optional[str]: None and the empty string are false.
Falsy(x) == x = None \/ x = ""

\* A bundle map (Dict[str, Set[str]]) is the sequence of its items in
\* iteration order: records [name, pkgs] with distinct non-empty names (the
\* names of the package's extras).
BundleMaps(names, packages, n) ==
  {m \in UNION {[1..k -> [name : names, pkgs : SUBSET packages]] : k \in 0..n} :
     \A i, j \in 1..Len(m) : i # j => m[i].name # m[j].name}

\* Python's order of the strings that get sorted (code points: upper case
\* before lower case), as the position in this list.
StrOrder == <<"X", "Y", "Z", "all", "openpyxl", "pandas", "requests">>
StrRank(x) == CHOOSE i \in 1..Len(StrOrder) : StrOrder[i] = x

\* sorted(S) of a set of strings.
SortedSet(S) ==
  [p \in 1..Cardinality(S) |->
     CHOOSE x \in S : Cardinality({y \in S : StrRank(y) < StrRank(x)}) = p - 1]

\* install_hints.py:44, the candidates dict.
CandidatesWithAll(m) == m

Candidates(m) == SelectSeq(m, LAMBDA e : e.name # "all")

\* install_hints.py:47-53, the for loop: the first bundle, in iteration
\* order, with the largest cover of the remaining packages.
RECURSIVE ScanBest(_, _, _, _)
ScanBest(cands, i, rem, acc) ==
  IF i > Len(cands) THEN acc
  ELSE LET cover == rem \cap cands[i].pkgs
       IN  ScanBest(cands, i + 1, rem,
                    IF Cardinality(cover) > Cardinality(acc.best_cover)
                    THEN [best |-> cands[i].name, best_cover |-> cover]
                    ELSE acc)

BestLastSeen(cands, rem) ==
  LET covers == {Cardinality(rem \cap cands[i].pkgs) : i \in 1..Len(cands)}
      top == CHOOSE c \in covers : \A d \in covers : d <= c
      last == CHOOSE i \in 1..Len(cands) :
                /\ Cardinality(rem \cap cands[i].pkgs) = top
                /\ \A j \in (i + 1)..Len(cands) : Cardinality(rem \cap cands[j].pkgs) < top
  IN  IF cands = <<>> \/ top = 0 THEN [best |-> None, best_cover |-> {}]
      ELSE [best |-> cands[last].name, best_cover |-> rem \cap cands[last].pkgs]

Best(cands, rem) == ScanBest(cands, 1, rem, [best |-> None, best_cover |-> {}])

\* install_hints.py:54, the loop's break.
StopsOn(b) == Falsy(b.best) \/ b.best_cover = {}

\* install_hints.py:46-59 as a function of the loop's locals.
RECURSIVE GreedyLoop(_, _, _)
GreedyLoop(cands, rem, ch) ==
  IF rem = {} THEN SortedSet(Range(ch))
  ELSE LET b == Best(cands, rem)
       IN  IF StopsOn(b) THEN SortedSet(Range(ch))
           ELSE GreedyLoop(cands, rem \ b.best_cover, Append(ch, b.best))

\* install_hints.py choose_extras_for_packages.
choose_extras_for_packages(m, p) == GreedyLoop(Candidates(m), p, <<>>)

\* install_hints.py:11-20, MOD_TO_PKG.get(module, module)
MOD_TO_PKG ==
  [bs4 |-> "beautifulsoup4", sklearn |-> "scikit-learn", yaml |-> "PyYAML",
   PIL |-> "Pillow", fitz |-> "PyMuPDF",
   sentence_transformers |-> "sentence-transformers",
   plotly_resampler |-> "plotly-resampler",
   youtubesearchpython |-> "youtube-search-python"]

PkgOfModule(module) ==
  IF module \in DOMAIN MOD_TO_PKG THEN MOD_TO_PKG[module] ELSE module

\* The install commands: f"pip install -e .[{','.join(extras)}]" keeps the
\* list it joins, f"pip install {pkg}" the package.
ExtrasInstall(extras) == <<"pip install -e .[", extras, "]">>
PkgInstall(pkg) == <<"pip install", pkg>>
BaseInstall == <<"pip install -e .">>
PlaywrightInstall == <<"playwright install">>

NotePreferred == "Preferred: install via extras for reproducible capability bundles."
NoteFallback == "Fallback: install the missing package directly."
NoteBase == "Install the base package first, then add extras as needed."
NoteTesseract == "OCR also needs the system 'tesseract' binary installed and on PATH."
NoteFfmpeg == "Audio tools often need ffmpeg installed and on PATH."
NotePlaywright == "Playwright needs browser binaries installed via 'playwright install'."

\* install_hints.py:93-100, the reminders appended after the first command.
SystemDeps(mm, deps_set) ==
  [cmds  |-> IF "playwright" \in deps_set \/ mm = "playwright"
             THEN <<PlaywrightInstall>> ELSE <<>>,
   notes |-> (IF "pytesseract" \in deps_set \/ mm = "pytesseract"
              THEN <<NoteTesseract>> ELSE <<>>)
          \o (IF "pydub" \in deps_set \/ mm = "pydub"
              THEN <<NoteFfmpeg>> ELSE <<>>)
          \o (IF "playwright" \in deps_set \/ mm = "playwright"
              THEN <<NotePlaywright>> ELSE <<>>)]

\* The payload with the direct install tried before the extras.
install_hints_missing_first(tn, mm, deps, m) ==
  LET deps_set == Range(deps)
      se == IF deps_set # {} THEN choose_extras_for_packages(m, deps_set) ELSE <<>>
      first == IF ~Falsy(mm)
               THEN [cmd |-> PkgInstall(PkgOfModule(mm)), note |-> NoteFallback]
               ELSE IF se # <<>>
               THEN [cmd |-> ExtrasInstall(se), note |-> NotePreferred]
               ELSE [cmd |-> BaseInstall, note |-> NoteBase]
      sys == SystemDeps(mm, deps_set)
  IN  [tool |-> tn, missing_module |-> mm, deps_pypi |-> deps,
       suggested_extras |-> se,
       pip_commands |-> <<first.cmd>> \o sys.cmds,
       notes |-> <<first.note>> \o sys.notes]

\* install_hints.py install_hints_for_tool
install_hints_for_tool(tn, mm, deps, m) ==
  LET deps_set == Range(deps)
      se == IF deps_set # {} THEN choose_extras_for_packages(m, deps_set) ELSE <<>>
      first == IF se # <<>>
               THEN [cmd |-> ExtrasInstall(se), note |-> NotePreferred]
               ELSE IF ~Falsy(mm)
               THEN [cmd |-> PkgInstall(PkgOfModule(mm)), note |-> NoteFallback]
               ELSE [cmd |-> BaseInstall, note |-> NoteBase]
      sys == SystemDeps(mm, deps_set)
  IN  [tool |-> tn, missing_module |-> mm, deps_pypi |-> deps,
       suggested_extras |-> se,
       pip_commands |-> <<first.cmd>> \o sys.cmds,
       notes |-> <<first.note>> \o sys.notes]

\* The inputs of the direct calls of choose_extras_for_packages ...
BundleNames == {"X", "Y", "Z", "all"}
Packages == {"a", "b", "c"}
MaxBundles == 2

\* The bundle map of the resolver's worked example.
XYZ == <<[name |-> "X", pkgs |-> {"a", "b"}], [name |-> "Y", pkgs |-> {"b", "c"}],
         [name |-> "Z", pkgs |-> {"a", "c"}]>>

\* ... and of install_hints_for_tool.
ToolNames == {"scrape_site"}
HintBundleNames == {"X", "Y", "all"}
HintPackages == {"a", "playwright"}
DepNames == {"a", "playwright", "pytesseract"}
MissingModules == {None, "", "bs4", "playwright", "pydub", "requests"}
MaxDeps == 2

\* ------------------------------------------------- missing-module extraction

\* A failure text is a sequence of tokens: the literal phrase (one token, it
\* cannot overlap itself), a space, the two quotes, and the characters of the
\* class [A-Za-z0-9_\.], of which a letter and the dot are kept.
Phrase == "No module named"
Space == " "
Quotes == {"'", "\""}
IdentChars == {"a", "."}
TextTokens == {Phrase, Space} \cup Quotes \cup IdentChars

\* The end of the longest run of [A-Za-z0-9_\.] that starts at j (j - 1 when
\* there is none).
RECURSIVE RunEnd(_, _)
RunEnd(text, j) ==
  IF j <= Len(text) /\ text[j] \in IdentChars THEN RunEnd(text, j + 1) ELSE j - 1

\* The characters text[i..j] as a string.
RECURSIVE Join(_, _, _)
Join(text, i, j) == IF i > j THEN "" ELSE text[i] \o Join(text, i + 1, j)

\* m.group(1), the whole identifier.
WholeGroup(text, i, j) == Join(text, i, j)

\* m.group(1).split(".")[0]: the characters of text[i..j] before the first dot.
RECURSIVE FirstSegment(_, _, _)
FirstSegment(text, i, j) ==
  IF i > j \/ text[i] = "." THEN "" ELSE text[i] \o FirstSegment(text, i + 1, j)

\* Whether r"No module named ['\"]([A-Za-z0-9_\.]+)['\"]" matches at i.
MatchesAt(text, i) ==
  /\ i + 4 <= Len(text)
  /\ text[i] = Phrase
  /\ text[i + 1] = Space
  /\ text[i + 2] \in Quotes
  /\ RunEnd(text, i + 3) >= i + 3
  /\ RunEnd(text, i + 3) + 1 <= Len(text)
  /\ text[RunEnd(text, i + 3) + 1] \in Quotes

\* re.search: the leftmost position the pattern matches at, 0 for no match.
RECURSIVE SearchFrom(_, _)
SearchFrom(text, i) ==
  IF i > Len(text) THEN 0
  ELSE IF MatchesAt(text, i) THEN i ELSE SearchFrom(text, i + 1)

\* install_hints.py missing_module_from_stderr
missing_module_from_stderr(text) ==
  LET m == SearchFrom(text, 1)
  IN  IF m = 0 THEN None
      ELSE FirstSegment(text, m + 3, RunEnd(text, m + 3))

MaxText == 6

\* extract("No module named 'foo.bar'"), extract("No module named \"foo\"")
\* and a text with two import errors.
ExampleTexts ==
  {<<Phrase, Space, "'", "a", ".", "a", "'">>,
   <<Space, Phrase, Space, "\"", "a", "a", "\"">>,
   <<Phrase, Space, "a", Space, Phrase, Space, "'", "a", "'">>}

\* ------------------------------------------------------------ step ranker

\* Optional[ChainStep]: None, as a record that is no step.
NoStep == [tool_name |-> None]

\* set(s.tags) & required_tags
TagOverlap(s, tags) == Range(s.tags) \cap tags

\* toolchains.py:74, the narrowing by the required tags.
NarrowedHard(pool, tags) ==
  IF tags # {} THEN SelectSeq(pool, LAMBDA s : TagOverlap(s, tags) # {}) ELSE pool

Narrowed(pool, tags) ==
  LET cand == SelectSeq(pool, LAMBDA s : TagOverlap(s, tags) # {})
  IN  IF tags # {} /\ cand # <<>> THEN cand ELSE pool

\* toolchains.py:79, the records a preference pair matches.
MatchesPair(s, pair) ==
  s.domain = pair[1] /\ (pair[2] = "*" \/ s.subdomain = pair[2])

\* toolchains.py:82, the sort key of a matched record.
RankKeyFewerTagsFirst(s, tags) ==
  <<Cardinality(TagOverlap(s, tags)), Len(s.deps_pypi), Len(s.description)>>

RankKey(s, tags) ==
  <<0 - Cardinality(TagOverlap(s, tags)), Len(s.deps_pypi), Len(s.description)>>

\* toolchains.py:88, the sort key of the fallback.
FallbackKey(s) == <<Len(s.deps_pypi), Len(s.description)>>

\* toolchains.py:78-83, the scan of the preference pairs from pair i on: the
\* head of the sorted matches of the first pair that matches, NoStep if none does.
RECURSIVE ScanPrefs(_, _, _, _)
ScanPrefs(pool, prefs, tags, i) ==
  IF i > Len(prefs) THEN NoStep
  ELSE LET cand == SelectSeq(pool, LAMBDA s : MatchesPair(s, prefs[i]))
       IN  IF cand # <<>>
           THEN Head(StableSort(cand, [k \in 1..Len(cand) |-> RankKey(cand[k], tags)]))
           ELSE ScanPrefs(pool, prefs, tags, i + 1)

\* toolchains.py pick_best: the value returned and the list object the caller
\* passed as it is after the call (the fallback sorts `steps` in place, which
\* is the caller's list unless the narrowing rebound the name).
pick_best(pool, prefs, tags) ==
  LET local == Narrowed(pool, tags)
      rebound == tags # {} /\ SelectSeq(pool, LAMBDA s : TagOverlap(s, tags) # {}) # <<>>
      hit == ScanPrefs(local, prefs, tags, 1)
      sorted == StableSort(local, [k \in 1..Len(local) |-> FallbackKey(local[k])])
  IN  IF hit # NoStep THEN [result |-> hit, steps |-> pool]
      ELSE IF local = <<>> THEN [result |-> NoStep, steps |-> pool]
      ELSE [result |-> Head(sorted), steps |-> IF rebound THEN pool ELSE sorted]

\* The catalog records a pool is drawn from: a record is its place in the
\* pool (its unique tool_name and id) and its attributes.
RankDomains == {<<"WEB", "SCRAPE">>, <<"WEB", "HTTP">>, <<"MISC", "MISC">>}
RankTags == {<<>>, <<"requests">>, <<"requests", "bs4">>}
RankCosts == {<<<<>>, "s">>, <<<<>>, "long">>, <<<<"requests">>, "s">>}
RankAttrs == RankDomains \X RankTags \X RankCosts
RankPrefs == {<<>>,
              <<<<"WEB", "SCRAPE">>, <<"MISC", "MISC">>>>,
              <<<<"DOC", "PDF">>, <<"WEB", "*">>>>,
              <<<<"MISC", "MISC">>, <<"WEB", "HTTP">>, <<"WEB", "SCRAPE">>>>}
RankRequired == {{}, {"requests"}, {"requests", "bs4"}, {"pdf"}}
ToolName(i) == <<"tool", i>>
StepOf(i, a) ==
  [tool_name |-> ToolName(i), id |-> i, domain |-> a[1][1], subdomain |-> a[1][2],
   tags |-> a[2], deps_pypi |-> a[3][1], description |-> a[3][2]]
MaxPool == 2

\* ----------------------------------------------------------- script locator

\* A path is the sequence of its parts and a part is the sequence of its
\* characters, so that as_posix() and str.endswith act on characters.  The
\* tree under tools_dir is the list of its files in the order rglob walks
\* them (the order of the file system's directory scans); directories have
\* other names than files.
A == <<"a">>
BA == <<"b", "a">>
C == <<"c">>
F == <<"f">>
G == <<"g">>
DirNames == {A, BA}

\* The files named f up to three parts deep, and two files of another name.
RECURSIVE PathsOfDepth(_)
PathsOfDepth(d) ==
  IF d = 1 THEN {<<F>>}
  ELSE {<<x>> \o q : x \in DirNames, q \in PathsOfDepth(d - 1)}

TreePaths == PathsOfDepth(1) \cup PathsOfDepth(2) \cup PathsOfDepth(3)
               \cup {<<G>>, <<A, G>>}

\* The declared relative paths (source_path with its separators normalised
\* and split): a bare file name, one that is a suffix of another path's
\* characters, one whose directory is not in the tree.
DeclaredPaths == {<<F>>, <<A, F>>, <<C, F>>}

\* Path.as_posix(): the parts joined by "/".
RECURSIVE AsPosix(_)
AsPosix(path) ==
  IF Len(path) = 1 THEN path[1]
  ELSE path[1] \o <<"/">> \o AsPosix(Tail(path))

\* str.endswith
EndsWith(str, suffix) ==
  /\ Len(suffix) <= Len(str)
  /\ SubSeq(str, Len(str) - Len(suffix) + 1, Len(str)) = suffix

\* list.sort(key=lambda x: len(x.relative_to(tools_dir).parts))
SortByDepth(matches) == StableSort(matches, [k \in 1..Len(matches) |-> <<Len(matches[k])>>])

\* mcp_server.py:64, the candidates an ambiguity error lists.
MaxListed == 25

Found(path) == [kind |-> "path", path |-> path]
Ambiguous(cands) == [kind |-> "ambiguous", candidates |-> cands]
NotFound == [kind |-> "not_found"]

\* mcp_server.py:59-63, whether the shallowest basename match is returned.
ShallowestWinsOnTie(sorted) == Len(sorted[1]) <= Len(sorted[2])

ShallowestWins(sorted) == Len(sorted[1]) < Len(sorted[2])

\* mcp_server.py:51-75, the basename stage.
ResolveByBasename(listing, basename) ==
  LET base_matches == SelectSeq(listing, LAMBDA q : q[Len(q)] = basename)
      sorted == SortByDepth(base_matches)
  IN  IF Len(base_matches) = 1 THEN Found(base_matches[1])
      ELSE IF Len(base_matches) > 1
      THEN IF ShallowestWins(sorted) THEN Found(sorted[1])
           ELSE Ambiguous(SubSeq(sorted, 1, Min(MaxListed, Len(sorted))))
      ELSE NotFound

\* mcp_server.py:44-49, the suffix stage's choice among its matches.
SuffixChoice(suffix_matches) ==
  IF Len(suffix_matches) = 1 THEN Found(suffix_matches[1])
  ELSE Found(SortByDepth(suffix_matches)[1])

\* mcp_server.py _resolve_script_path, on the listing rglob walks and the
\* parts of the declared path.
_resolve_script_path(listing, declared) ==
  LET basename == declared[Len(declared)]
      globbed == SelectSeq(listing, LAMBDA q : q[Len(q)] = basename)
      suffix_matches ==
        SelectSeq(globbed, LAMBDA q : EndsWith(AsPosix(q), AsPosix(declared)))
  IN  IF \E i \in 1..Len(listing) : listing[i] = declared THEN Found(declared)
      ELSE IF Len(suffix_matches) >= 1 THEN SuffixChoice(suffix_matches)
      ELSE ResolveByBasename(listing, basename)

MaxFiles == 3

\* A tree with 26 files of the same name, the two shallowest equally deep:
\* two files three parts deep, eight four parts deep, sixteen five parts deep.
DirsOf(n, k) == [j \in 1..k |-> IF (n \div (2 ^ (j - 1))) % 2 = 0 THEN A ELSE BA]
BigTree ==
  [i \in 1..26 |->
     IF i <= 16 THEN DirsOf(i - 1, 4) \o <<F>>
     ELSE IF i <= 24 THEN DirsOf(i - 17, 3) \o <<F>>
     ELSE DirsOf(i - 25, 2) \o <<F>>]

\* ------------------------------------------------- recipe candidate builder

\* toolchains.py:30-41, the keyword set of each flag.
Keywords ==
  [web |-> {"web", "http", "scrape", "crawler", "crawl", "api", "fetch", "request",
            "requests", "html", "site", "url"},
   browser |-> {"selenium", "playwright", "browser", "headless", "login", "render",
                "js", "javascript"},
   pdf |-> {"pdf", "paper", "papers", "document", "docs", "extract"},
   office |-> {"excel", "xlsx", "spreadsheet", "workbook", "sheet", "openpyxl"},
   nlp |-> {"nlp", "summarize", "summary", "sentiment", "entities", "entity", "ner",
            "language", "text"},
   embeddings |-> {"embedding", "embeddings", "vector", "semantic", "similarity",
                   "search"},
   ml |-> {"model", "train", "classification", "regression", "sklearn", "torch",
           "pytorch"},
   viz |-> {"plot", "chart", "visualize", "viz", "graph", "dashboard", "map",
            "plotly", "matplotlib"},
   system |-> {"monitor", "cpu", "ram", "disk", "process", "watch", "watchdog",
               "filesystem"},
   schedule |-> {"schedule", "cron", "timer", "apscheduler", "jobs", "workflow",
                 "prefect", "dagster", "airflow"}]

\* A goal text is the sequence of its words; str.lower() on the words used.
Lower(word) == IF word = "Plot" THEN "plot" ELSE word

\* toolchains.py _goal_keywords
_goal_keywords(text) == {Lower(text[i]) : i \in 1..Len(text)}

\* toolchains.py classify_goal
classify_goal(text) ==
  LET toks == _goal_keywords(text)
      hit == [f \in DOMAIN Keywords |-> toks \cap Keywords[f] # {}]
  IN  [f \in Flags |->
         IF f = "misc" THEN \A g \in DOMAIN Keywords : ~hit[g] ELSE hit[f]]

\* toolchains.py:97-105
phase_prefs ==
  [ingest_web |-> <<<<"WEB", "SCRAPE">>, <<"WEB", "BROWSER">>, <<"WEB", "HTTP">>,
                    <<"WEB", "API">>, <<"MISC", "MISC">>>>,
   ingest_docs |-> <<<<"DOC", "PDF">>, <<"DOC", "OFFICE">>, <<"DOC", "MISC">>,
                     <<"MISC", "MISC">>>>,
   observe |-> <<<<"SYS", "MON">>, <<"MISC", "MISC">>>>,
   transform |-> <<<<"DATA", "DF">>, <<"MISC", "MISC">>>>,
   analyze |-> <<<<"NLP", "EMBED">>, <<"NLP", "SPACY">>, <<"NLP", "BASIC">>,
                 <<"ML", "TORCH">>, <<"ML", "SKLEARN">>, <<"MISC", "MISC">>>>,
   visualize |-> <<<<"VIZ", "PLOTS">>, <<"VIZ", "MAPS">>, <<"VIZ", "GPU">>,
                   <<"VIZ", "TERM">>, <<"MISC", "MISC">>>>,
   report |-> <<<<"DOC", "OFFICE">>, <<"DOC", "PDF">>, <<"VIZ", "TERM">>,
                <<"MISC", "MISC">>>>]

\* toolchains.py:107-115
phase_tags ==
  [ingest_web |-> {"requests", "httpx", "urllib3", "bs4", "mechanicalsoup",
                   "selenium", "playwright", "pyppeteer", "scrape", "browser",
                   "api", "http"},
   ingest_docs |-> {"pdf", "pypdf2", "pymupdf", "fitz", "pdfplumber", "openpyxl",
                    "xlsx", "excel"},
   observe |-> {"psutil", "watchdog", "system", "filesystem"},
   transform |-> {"pandas", "polars", "numpy", "arrow", "dataframe"},
   analyze |-> {"nlp", "spacy", "textblob", "sentence_transformers", "embedding",
                "torch", "sklearn"},
   visualize |-> {"plotly", "matplotlib", "seaborn", "datashader", "holoviews",
                  "pydeck", "pyecharts", "plotext", "chart", "plot", "map"},
   report |-> {"openpyxl", "pdf", "rich", "pandas", "polars"}]

\* toolchains.py:128, 136, 143
RankRounds == 12
MaxOptions == 6
Branching == 3

\* seq[:k], Python's slice from the start (a negative k counts from the end).
PySlice(seq, k) ==
  IF k >= 0 THEN SubSeq(seq, 1, Min(k, Len(seq)))
  ELSE SubSeq(seq, 1, Len(seq) + k)

\* toolchains.py:124
Plausible(catalog, ph) ==
  SelectSeq(catalog, LAMBDA s :
    \/ Range(s.tags) \cap phase_tags[ph] # {}
    \/ s.domain \in {phase_prefs[ph][k][1] : k \in 1..Len(phase_prefs[ph])})

\* toolchains.py:126-133, the ranking loop with `rounds` rounds left.
RECURSIVE RankLoop(_, _, _, _, _)
RankLoop(plausible, ph, used, ranked, rounds) ==
  IF rounds = 0 THEN ranked
  ELSE LET pick == pick_best(SelectSeq(plausible, LAMBDA s : s.tool_name \notin used),
                             phase_prefs[ph], phase_tags[ph]).result
       IN  IF pick = NoStep THEN ranked
           ELSE RankLoop(plausible, ph, used \cup {pick.tool_name},
                         Append(ranked, pick), rounds - 1)

\* toolchains.py:120-136, the options of one phase.
PhaseOptions(catalog, ph) ==
  LET plausible == Plausible(catalog, ph)
      ranked == RankLoop(plausible, ph, {}, <<>>, RankRounds)
  IN  PySlice(IF ranked = <<>> THEN PySlice(plausible, 1) ELSE ranked, MaxOptions)

\* toolchains.py:141-144 with a chain carried over unextended when the phase
\* has no option.
RECURSIVE ExtendedOrCarried(_, _)
ExtendedOrCarried(cands, opts) ==
  IF cands = <<>> THEN <<>>
  ELSE (IF opts = <<>> THEN <<Head(cands)>>
        ELSE [k \in 1..Len(opts) |-> Append(Head(cands), opts[k])])
       \o ExtendedOrCarried(Tail(cands), opts)

\* toolchains.py:141-144, every chain extended by each of the first options.
RECURSIVE Extended(_, _)
Extended(cands, opts) ==
  IF cands = <<>> THEN <<>>
  ELSE [k \in 1..Len(opts) |-> Append(Head(cands), opts[k])] \o Extended(Tail(cands), opts)

\* toolchains.py:145, what is kept of the extended chains.
KeepAll(new_cands, maxc) == new_cands

Kept(new_cands, maxc) == PySlice(new_cands, maxc)

\* toolchains.py:150, sorted({p for s in chain for p in s.deps_pypi})
DepsUnion(chain) == SortedSet(UNION {Range(chain[k].deps_pypi) : k \in 1..Len(chain)})

\* toolchains.py:148-168
Rendered(cands, phs, maxc) ==
  LET shown == PySlice(cands, maxc)
  IN  [idx \in 1..Len(shown) |->
         [candidate |-> idx, phases |-> phs, deps_union |-> DepsUnion(shown[idx]),
          steps |-> shown[idx]]]

\* The catalogs and goals a recipe is built from.
CatalogKinds ==
  {<<<<"WEB", "SCRAPE">>, <<"requests", "bs4">>, <<<<"requests">>, "s">>>>,
   <<<<"DATA", "DF">>, <<"pandas">>, <<<<"pandas">>, "long">>>>,
   <<<<"DOC", "OFFICE">>, <<"openpyxl">>, <<<<"openpyxl">>, "s">>>>,
   <<<<"MISC", "MISC">>, <<>>, <<<<>>, "s">>>>}
GoalWords == {"scrape", "Plot", "pdf"}

\* A catalog with more than three ranked options in a phase: one helper of
\* domain MISC listed before three dataframe tools.
ManyOptions ==
  LET helper == <<<<"MISC", "MISC">>, <<>>, <<<<>>, "s">>>>
      frame == <<<<"DATA", "DF">>, <<"pandas">>, <<<<"pandas">>, "long">>>>
      kinds == <<helper, frame, frame, frame>>
  IN  [i \in 1..Len(kinds) |-> StepOf(i, kinds[i])]
MaxCatalog == 3
MaxGoal == 2
MaxCand == 2
MinCand == 0 - 2

\* The variables of the operations a specification does not run stay unset.
PlannerIdle == wants = None /\ phases = None
ExtrasIdle ==
  /\ extras_map = None /\ pkgs = None /\ remaining = None
  /\ chosen = None /\ suggested_extras = None
HintsIdle ==
  /\ tool_name = None /\ missing_module = None /\ deps_pypi = None /\ hints = None
StderrIdle == stderr = None /\ missing = None
RankerIdle ==
  /\ steps = None /\ preferred_domains = None /\ required_tags = None
  /\ picked = None
LocatorIdle == tools_dir = None /\ source_path = None /\ resolved = None
BuilderIdle ==
  /\ all_steps = None /\ goal = None /\ max_candidates = None
  /\ per_phase_options = None /\ phase_i = None /\ candidates = None /\ out = None

InitPlanner ==
  /\ pc = "phases_for_goal"
  /\ wants \in [Flags -> BOOLEAN]
  /\ phases = None
  /\ ExtrasIdle /\ HintsIdle /\ StderrIdle /\ RankerIdle /\ LocatorIdle /\ BuilderIdle

PlanPhases ==
  /\ pc = "phases_for_goal"
  /\ phases' = phases_for_goal(wants)
  /\ pc' = "planned"
  /\ UNCHANGED <<wants, extrasVars, hintsVars, stderrVars, rankerVars,
                 locatorVars, builderVars>>

NextPlanner == PlanPhases

SpecPlanner == InitPlanner /\ [][NextPlanner]_vars

InitChoose ==
  /\ pc = "choose_extras"
  /\ extras_map \in BundleMaps(BundleNames, Packages, MaxBundles) \cup {XYZ}
  /\ pkgs \in SUBSET Packages
  /\ remaining = None /\ chosen = None /\ suggested_extras = None
  /\ HintsIdle

InitHints ==
  /\ pc = "install_hints"
  /\ extras_map \in BundleMaps(HintBundleNames, HintPackages, MaxBundles)
  /\ tool_name \in ToolNames
  /\ missing_module \in MissingModules
  /\ deps_pypi \in UNION {[1..n -> DepNames] : n \in 0..MaxDeps}
  /\ hints = None
  /\ pkgs = None /\ remaining = None /\ chosen = None /\ suggested_extras = None

InitExtras ==
  /\ InitChoose \/ InitHints
  /\ PlannerIdle /\ StderrIdle /\ RankerIdle /\ LocatorIdle /\ BuilderIdle

ExtrasFrame == UNCHANGED <<plannerVars, stderrVars, rankerVars, locatorVars, builderVars>>

\* install_hints.py:40-44
ChooseBegin ==
  /\ pc = "choose_extras"
  /\ remaining' = pkgs
  /\ chosen' = <<>>
  /\ pc' = "greedy"
  /\ UNCHANGED <<extras_map, pkgs, suggested_extras, hintsVars>>
  /\ ExtrasFrame

\* install_hints.py:46-57, one round of the while loop that picks a bundle.
GreedyRound ==
  /\ pc = "greedy"
  /\ remaining # {}
  /\ LET b == Best(Candidates(extras_map), remaining)
     IN  /\ ~StopsOn(b)
         /\ chosen' = Append(chosen, b.best)
         /\ remaining' = remaining \ b.best_cover
  /\ UNCHANGED <<pc, extras_map, pkgs, suggested_extras, hintsVars>>
  /\ ExtrasFrame

\* install_hints.py:46, 54-55, 59: the loop ends and the result is returned.
GreedyReturn ==
  /\ pc = "greedy"
  /\ remaining = {} \/ StopsOn(Best(Candidates(extras_map), remaining))
  /\ suggested_extras' = SortedSet(Range(chosen))
  /\ pc' = "chosen"
  /\ UNCHANGED <<extras_map, pkgs, remaining, chosen, hintsVars>>
  /\ ExtrasFrame

\* install_hints.py:62-102
InstallHints ==
  /\ pc = "install_hints"
  /\ hints' = install_hints_for_tool(tool_name, missing_module, deps_pypi, extras_map)
  /\ pc' = "hinted"
  /\ UNCHANGED <<extras_map, pkgs, remaining, chosen, suggested_extras,
                 tool_name, missing_module, deps_pypi>>
  /\ ExtrasFrame

NextExtras == ChooseBegin \/ GreedyRound \/ GreedyReturn \/ InstallHints

SpecExtras == InitExtras /\ [][NextExtras]_vars

InitStderr ==
  /\ pc = "missing_module_from_stderr"
  /\ stderr \in UNION {[1..n -> TextTokens] : n \in 0..MaxText} \cup ExampleTexts
  /\ missing = None
  /\ PlannerIdle /\ ExtrasIdle /\ HintsIdle /\ RankerIdle /\ LocatorIdle /\ BuilderIdle

\* install_hints.py:30-35
ParseStderr ==
  /\ pc = "missing_module_from_stderr"
  /\ missing' = missing_module_from_stderr(stderr)
  /\ pc' = "parsed"
  /\ UNCHANGED <<stderr, plannerVars, extrasVars, hintsVars, rankerVars,
                 locatorVars, builderVars>>

NextStderr == ParseStderr

SpecStderr == InitStderr /\ [][NextStderr]_vars

InitRanker ==
  /\ pc = "pick_best"
  /\ \E n \in 0..MaxPool : \E attrs \in [1..n -> RankAttrs] :
       steps = [i \in 1..n |-> StepOf(i, attrs[i])]
  /\ preferred_domains \in RankPrefs
  /\ required_tags \in RankRequired
  /\ picked = None
  /\ PlannerIdle /\ ExtrasIdle /\ HintsIdle /\ StderrIdle /\ LocatorIdle /\ BuilderIdle

\* toolchains.py:71-89
PickBest ==
  /\ pc = "pick_best"
  /\ LET r == pick_best(steps, preferred_domains, required_tags)
     IN  /\ picked' = r.result
         /\ steps' = r.steps
  /\ pc' = "picked"
  /\ UNCHANGED <<preferred_domains, required_tags, plannerVars, extrasVars,
                 hintsVars, stderrVars, locatorVars, builderVars>>

NextRanker == PickBest

SpecRanker == InitRanker /\ [][NextRanker]_vars

InitLocator ==
  /\ pc = "_resolve_script_path"
  /\ tools_dir \in {l \in UNION {[1..n -> TreePaths] : n \in 0..MaxFiles} :
                      \A i, j \in 1..Len(l) : i # j => l[i] # l[j]} \cup {BigTree}
  /\ source_path \in DeclaredPaths
  /\ resolved = None
  /\ PlannerIdle /\ ExtrasIdle /\ HintsIdle /\ StderrIdle /\ RankerIdle /\ BuilderIdle

\* mcp_server.py:16-75
ResolveScriptPath ==
  /\ pc = "_resolve_script_path"
  /\ resolved' = _resolve_script_path(tools_dir, source_path)
  /\ pc' = "resolved"
  /\ UNCHANGED <<tools_dir, source_path, plannerVars, extrasVars, hintsVars,
                 stderrVars, rankerVars, builderVars>>

NextLocator == ResolveScriptPath

SpecLocator == InitLocator /\ [][NextLocator]_vars

InitBuilder ==
  /\ pc = "build_recipe_candidates"
  /\ \/ \E n \in 0..MaxCatalog : \E kinds \in [1..n -> CatalogKinds] :
          all_steps = [i \in 1..n |-> StepOf(i, kinds[i])]
     \/ all_steps = ManyOptions
  /\ goal \in UNION {[1..n -> GoalWords] : n \in 0..MaxGoal}
  /\ max_candidates \in MinCand..MaxCand
  /\ per_phase_options = None /\ phase_i = None /\ candidates = None /\ out = None
  /\ PlannerIdle /\ ExtrasIdle /\ HintsIdle /\ StderrIdle /\ RankerIdle /\ LocatorIdle

BuilderFrame == UNCHANGED <<extrasVars, hintsVars, stderrVars, rankerVars, locatorVars>>

\* toolchains.py:93-139, the plan, the options of every phase, the empty chain.
PlanRecipe ==
  /\ pc = "build_recipe_candidates"
  /\ wants' = classify_goal(goal)
  /\ phases' = phases_for_goal(wants')
  /\ per_phase_options' = [k \in 1..Len(phases') |-> PhaseOptions(all_steps, phases'[k])]
  /\ candidates' = <<<<>>>>
  /\ phase_i' = 0
  /\ pc' = "expand"
  /\ UNCHANGED <<all_steps, goal, max_candidates, out>>
  /\ BuilderFrame

\* toolchains.py:140-145, one round of the loop over the option lists.
ExpandPhase ==
  /\ pc = "expand"
  /\ phase_i < Len(per_phase_options)
  /\ LET opts == per_phase_options[phase_i + 1]
         new_cands == Extended(candidates, PySlice(opts, Branching))
     IN  candidates' = Kept(new_cands, max_candidates)
  /\ phase_i' = phase_i + 1
  /\ UNCHANGED <<pc, wants, phases, all_steps, goal, max_candidates,
                 per_phase_options, out>>
  /\ BuilderFrame

\* toolchains.py:147-168
RenderRecipes ==
  /\ pc = "expand"
  /\ phase_i = Len(per_phase_options)
  /\ out' = Rendered(candidates, phases, max_candidates)
  /\ pc' = "built"
  /\ UNCHANGED <<wants, phases, all_steps, goal, max_candidates,
                 per_phase_options, phase_i, candidates>>
  /\ BuilderFrame

NextBuilder == PlanRecipe \/ ExpandPhase \/ RenderRecipes

SpecBuilder == InitBuilder /\ [][NextBuilder]_vars

\* The positions of a phase list's elements in the fixed order.
PhaseIndex(ph) == CHOOSE i \in 1..Len(PhaseOrder) : PhaseOrder[i] = ph

\* C2: whatever the capability flags, phases_for_goal returns a duplicate-free
\* subsequence of the fixed phase order that holds transform exactly once and
\* ends with report.
C2_PhasesOrdered ==
  pc = "planned" =>
    /\ Len(phases) >= 1
    /\ \A i \in 1..Len(phases) : phases[i] \in Range(PhaseOrder)
    /\ \A i, j \in 1..Len(phases) :
         i < j => PhaseIndex(phases[i]) < PhaseIndex(phases[j])
    /\ Cardinality({i \in 1..Len(phases) : phases[i] = "transform"}) = 1
    /\ phases[Len(phases)] = "report"

\* Every conditional phase is planned, between the two unconditional ones.
C2_Witness ==
  /\ pc = "planned"
  /\ wants["misc"] = FALSE
  /\ phases = PhaseOrder

\* The bundle of the map with a given name.
BundleOf(m, name) == (CHOOSE i \in 1..Len(m) : m[i].name = name)
PkgsOf(m, name) == m[BundleOf(m, name)].pkgs
HasBundle(m, name) == \E i \in 1..Len(m) : m[i].name = name

\* C3: neither the list choose_extras_for_packages returns nor the
\* suggested_extras of install_hints_for_tool ever holds the bundle "all".
C3_NeverAll ==
  /\ pc = "chosen" => "all" \notin Range(suggested_extras)
  /\ pc = "hinted" => "all" \notin Range(hints.suggested_extras)

\* "all" is the only bundle that covers a required package, and nothing is chosen.
C3_Witness ==
  /\ pc = "chosen"
  /\ pkgs # {}
  /\ HasBundle(extras_map, "all")
  /\ pkgs \subseteq PkgsOf(extras_map, "all")
  /\ \A i \in 1..Len(extras_map) :
       extras_map[i].name # "all" => extras_map[i].pkgs \cap pkgs = {}
  /\ suggested_extras = <<>>

C8_CommandPrecedence ==
  pc = "hinted" =>
    LET cmds == hints.pip_commands
        present == missing_module # None /\ missing_module # ""
        pkg == CASE missing_module = "bs4" -> "beautifulsoup4"
                 [] missing_module = "sklearn" -> "scikit-learn"
                 [] OTHER -> missing_module
        needs_browser == (\E i \in 1..Len(deps_pypi) : deps_pypi[i] = "playwright")
                           \/ missing_module = "playwright"
    IN  /\ Len(cmds) >= 1
        /\ hints.suggested_extras # <<>> =>
             cmds[1] = <<"pip install -e .[", hints.suggested_extras, "]">>
        /\ (hints.suggested_extras = <<>> /\ present) =>
             cmds[1] = <<"pip install", pkg>>
        /\ (hints.suggested_extras = <<>> /\ ~present) =>
             cmds[1] = <<"pip install -e .">>
        /\ Len(cmds) = (IF needs_browser THEN 2 ELSE 1)
        /\ needs_browser => cmds[2] = <<"playwright install">>

\* A missing module is named, but the chosen bundles come first and the
\* browser step follows.
C8_Witness ==
  /\ pc = "hinted"
  /\ missing_module = "bs4"
  /\ Len(hints.suggested_extras) = 2
  /\ hints.pip_commands = <<ExtrasInstall(hints.suggested_extras), PlaywrightInstall>>

\* C9 as stated: the result is absent exactly when the phrase does not occur
\* in the text.
C9_AbsentIffNoPhrase ==
  pc = "parsed" => (missing = None <=> Phrase \notin Range(stderr))

\* The phrase at i, one space, a quote, the identifier stderr[i+3..j], a quote.
QuotedAfterPhrase(i, j) ==
  /\ 1 <= i /\ i + 3 <= j /\ j + 1 <= Len(stderr)
  /\ stderr[i] = Phrase /\ stderr[i + 1] = Space /\ stderr[i + 2] \in Quotes
  /\ \A k \in (i + 3)..j : stderr[k] \in IdentChars
  /\ stderr[j + 1] \in Quotes

\* C9 amended: the result is absent exactly when no occurrence of the phrase
\* is followed by one space and a quoted identifier (so always when the phrase
\* does not occur); otherwise it is the part before the first dot of the
\* identifier of the first such occurrence.
C9_FirstSegmentOfFirstMatch ==
  pc = "parsed" =>
    LET positions == 1..Len(stderr)
        found == \E i, j \in positions : QuotedAfterPhrase(i, j)
    IN  /\ missing = None <=> ~found
        /\ Phrase \notin Range(stderr) => missing = None
        /\ found =>
             \E i, j \in positions :
               /\ QuotedAfterPhrase(i, j)
               /\ \A i2, j2 \in positions : QuotedAfterPhrase(i2, j2) => i <= i2
               /\ \E d \in (i + 3)..(j + 1) :
                    /\ d = j + 1 \/ stderr[d] = "."
                    /\ \A k \in (i + 3)..(d - 1) : stderr[k] # "."
                    /\ missing = Join(stderr, i + 3, d - 1)
        /\ stderr = <<Phrase, Space, "'", "a", ".", "a", "'">> => missing = "a"
        /\ stderr = <<Space, Phrase, Space, "\"", "a", "a", "\"">> => missing = "aa"

\* A dotted identifier in quotes after the phrase: its first segment is returned.
C9_Witness ==
  /\ pc = "parsed"
  /\ \E i \in 1..Len(stderr) : QuotedAfterPhrase(i, i + 5) /\ stderr[i + 4] = "."
  /\ missing = "a"

\* C5: a call of pick_best on a non-empty pool with non-empty required tags
\* that no member of the pool shares returns a member of the pool it was
\* given, never None.
C5_SoftTagFilter ==
  [][(/\ pc = "pick_best" /\ pc' = "picked"
      /\ steps # <<>>
      /\ required_tags # {}
      /\ \A i \in 1..Len(steps) : Range(steps[i].tags) \cap required_tags = {})
     => (picked' # NoStep /\ picked' \in Range(steps))]_vars

\* No member carries a required tag, and a member is returned all the same.
C5_Witness ==
  /\ pc = "picked"
  /\ Len(steps) = 2
  /\ required_tags = {"pdf"}
  /\ picked \in Range(steps)

\* The pool pick_best ranks: the members sharing a required tag when there are
\* required tags and such members, the whole pool otherwise.
C10_Pool ==
  LET tagged == {i \in 1..Len(steps) : Range(steps[i].tags) \cap required_tags # {}}
  IN  IF required_tags # {} /\ tagged # {} THEN tagged ELSE 1..Len(steps)

C10_Matches(i, p) ==
  /\ steps[i].domain = preferred_domains[p][1]
  /\ preferred_domains[p][2] \in {"*", steps[i].subdomain}

C10_Better(i, j) ==
  LET oi == Cardinality(Range(steps[i].tags) \cap required_tags)
      oj == Cardinality(Range(steps[j].tags) \cap required_tags)
      di == Len(steps[i].deps_pypi)
      dj == Len(steps[j].deps_pypi)
  IN  \/ oi > oj
      \/ oi = oj /\ di < dj
      \/ oi = oj /\ di = dj /\ Len(steps[i].description) < Len(steps[j].description)

\* C10: when some preference pair matches a record of the (possibly narrowed)
\* pool, pick_best returns a record matched by the first such pair, no record
\* that pair matches ranks better (more shared tags, then fewer dependencies,
\* then shorter description), and none that ranks equal comes earlier in the pool.
C10_FirstPairBestRecord ==
  [][(/\ pc = "pick_best" /\ pc' = "picked"
      /\ \E p \in 1..Len(preferred_domains) : \E i \in C10_Pool : C10_Matches(i, p))
     => LET first == CHOOSE p \in 1..Len(preferred_domains) :
                       /\ \E i \in C10_Pool : C10_Matches(i, p)
                       /\ \A q \in 1..(p - 1) : \A i \in C10_Pool : ~C10_Matches(i, q)
            subset == {i \in C10_Pool : C10_Matches(i, first)}
        IN  \E w \in subset :
              /\ picked' = steps[w]
              /\ \A i \in subset : ~C10_Better(i, w)
              /\ \A i \in subset : i < w => C10_Better(w, i)]_vars

\* The first pair matches nothing, the second matches two records that rank
\* equal, a later pair matches as well: the earlier of the two is returned.
C10_Witness ==
  /\ pc = "picked"
  /\ preferred_domains = <<<<"DOC", "PDF">>, <<"WEB", "*">>>>
  /\ required_tags = {"requests"}
  /\ Len(steps) = 2
  /\ steps[1].domain = "WEB" /\ steps[2].domain = "WEB"
  /\ steps[1].subdomain # steps[2].subdomain
  /\ RankKey(steps[1], required_tags) = RankKey(steps[2], required_tags)
  /\ picked = steps[1]

\* The files of the tree, and what the claims about the locator speak of.
Files == Range(tools_dir)
ExactExists == source_path \in Files
SameBasename == {q \in Files : q[Len(q)] = source_path[Len(source_path)]}
SuffixMatching == {q \in SameBasename : EndsWith(AsPosix(q), AsPosix(source_path))}
Shallowest(S) == {q \in S : \A r \in S : Len(q) <= Len(r)}

\* C6: without an exact path and without suffix matches, two or more files
\* with the declared basename resolve to the shallowest one only when it alone
\* is shallowest; otherwise the outcome is the ambiguity error, which lists
\* same-named files of the tree, all of them up to 25, so two files at equal
\* depth fail with both listed.
C6_BasenameAmbiguity ==
  (/\ pc = "resolved"
   /\ ~ExactExists
   /\ SuffixMatching = {}
   /\ Cardinality(SameBasename) >= 2)
  => IF Cardinality(Shallowest(SameBasename)) = 1
     THEN resolved = Found(CHOOSE q \in Shallowest(SameBasename) : TRUE)
     ELSE /\ resolved.kind = "ambiguous"
          /\ Range(resolved.candidates) \subseteq SameBasename
          /\ Len(resolved.candidates) = Min(25, Cardinality(SameBasename))
          /\ Cardinality(Range(resolved.candidates)) = Len(resolved.candidates)
          /\ Cardinality(SameBasename) = 2 => Range(resolved.candidates) = SameBasename

\* Two same-named files at equal depth, no suffix match: the error lists both.
C6_Witness ==
  /\ pc = "resolved"
  /\ source_path = <<C, F>>
  /\ Cardinality(SameBasename) = 2
  /\ \A q \in SameBasename : Len(q) = 2
  /\ resolved.kind = "ambiguous"
  /\ Range(resolved.candidates) = SameBasename

\* The listings of the same files with two of them in each other's place
\* (every other order is a succession of such exchanges).
Reorderings ==
  {[k \in 1..Len(tools_dir) |->
      IF k = i THEN tools_dir[j] ELSE IF k = j THEN tools_dir[i] ELSE tools_dir[k]] :
   i, j \in 1..Len(tools_dir)}

\* C7 as stated: without an exact path and with a suffix match, the outcome
\* is one of the shallowest suffix matches, and it is the same file whatever
\* order the recursive search lists the files in.
C7_ShallowestSuffixAnyOrder ==
  (/\ pc = "resolved"
   /\ ~ExactExists
   /\ SuffixMatching # {})
  => /\ resolved.kind = "path"
     /\ resolved.path \in Shallowest(SuffixMatching)
     /\ \A l \in Reorderings : _resolve_script_path(l, source_path) = resolved

\* C1 as stated: whatever the integer max_candidates, at most max_candidates
\* chains are kept after each phase and at most max_candidates are returned.
C1_AtMostMaxAnyInteger ==
  /\ (pc = "expand" /\ phase_i >= 1) => Len(candidates) <= max_candidates
  /\ pc = "built" => Len(out) <= max_candidates

\* C1 amended: for a max_candidates that is not negative, at most
\* max_candidates chains are kept after each phase and at most max_candidates
\* are returned.
C1_AtMostMaxNonNegative ==
  (pc \in {"expand", "built"} /\ max_candidates >= 0) =>
    /\ phase_i >= 1 => Len(candidates) <= max_candidates
    /\ pc = "built" => Len(out) <= max_candidates

\* More chains were built than asked for, and the cap cut them.
C1_Witness ==
  /\ pc = "built"
  /\ max_candidates = 2
  /\ Len(per_phase_options[1]) >= 2
  /\ Len(per_phase_options[2]) >= 2
  /\ Len(out) = 2

\* C11 as stated: a call of pick_best leaves the pool list of its caller with
\* the same records in the same order as before the call, and no step of
\* build_recipe_candidates changes the catalog list it was given.
C11_InputsUnchanged ==
  [][/\ (pc = "pick_best" /\ pc' = "picked") => steps' = steps
     /\ (pc \in {"build_recipe_candidates", "expand"}) => all_steps' = all_steps]_vars

\* C12: every chain build_recipe_candidates returns has one step per planned
\* phase, the step at position i is one of the first three ranked options of
\* phase i, no two returned chains are the same step sequence, and when some
\* planned phase has no plausible catalog record nothing is returned.
C12_FullChainsOfTopThree ==
  pc = "built" =>
    /\ \A c \in 1..Len(out) :
         /\ Len(out[c].steps) = Len(phases)
         /\ out[c].phases = phases
         /\ \A i \in 1..Len(phases) :
              \E k \in 1..3 : /\ k <= Len(per_phase_options[i])
                              /\ out[c].steps[i] = per_phase_options[i][k]
    /\ \A c, d \in 1..Len(out) : c # d => out[c].steps # out[d].steps
    /\ (\E i \in 1..Len(phases) : Plausible(all_steps, phases[i]) = <<>>) => out = <<>>

\* Several chains were returned for a plan with a phase of more than three
\* ranked options, and one of them takes that phase's third option.
C12_Witness ==
  /\ pc = "built"
  /\ Len(out) >= 2
  /\ \E i \in 1..Len(phases) :
       /\ Len(per_phase_options[i]) > 3
       /\ \E c \in 1..Len(out) : out[c].steps[i] = per_phase_options[i][3]

====
